---- MODULE Spec2Model ----
(***************************************************************************)
(* A model of the Matrix class of src/src/matrix/Matrix.ts.                *)
(*                                                                         *)
(* Numbers.  A JavaScript number is modelled as a pair <<n, d>>:           *)
(*   d >= 1   the finite value n/d, in lowest terms;                        *)
(*   d = 0    <<1,0>> is +Infinity, <<-1,0>> is -Infinity, <<0,0>> is NaN;  *)
(*   d = -1   <<0,-1>> is `undefined` (a read past the end of an array).    *)
(*   d = -2   <<0,-2>> is a finite number the model does not work out: the  *)
(*            square root of a non-square, or a ratio whose numerator or    *)
(*            denominator is beyond Limit; it is carried through the        *)
(*            arithmetic, and the calls that would return it are left out.  *)
(* Finite arithmetic is exact: float rounding, overflow of finite values   *)
(* and the sign of zero are not modelled.                                  *)
(*                                                                         *)
(* Storage.  A Float32Array is an entry of `heap`, named by its index; a   *)
(* Matrix object holds the index in its mElements field, so that two       *)
(* objects holding the same index share storage, as two references to one  *)
(* Float32Array do.                                                        *)
(*                                                                         *)
(* Evaluation.  Only({e : x \in {v}}) is e with x standing for the value   *)
(* of v: it is used where a value is read more than once, since TLC may    *)
(* evaluate a definition or an argument anew each time it is named.        *)
(* Stored(f) is the sequence f with its values worked out, for the same    *)
(* reason.                                                                 *)
(***************************************************************************)
EXTENDS Integers, Sequences, FiniteSets, TLC

VARIABLES heap, mats, origin, callerBufs, last, task

vars == <<heap, mats, origin, callerBufs, last, task>>

---------------------------------------------------------------------------
(* Numbers *)

Only(S) == CHOOSE x \in S : TRUE

Stored(f) == f \o <<>>

NaN == <<0, 0>>
PosInf == <<1, 0>>
NegInf == <<(-1), 0>>
Undefined == <<0, (-1)>>
Inexact == <<0, (-2)>>
Zero == <<0, 1>>
One == <<1, 1>>

Num(n) == <<n, 1>>

Abs(n) == IF n < 0 THEN -n ELSE n

Sign(n) == IF n < 0 THEN -1 ELSE IF n > 0 THEN 1 ELSE 0

Min(a, b) == IF a < b THEN a ELSE b

\* The largest numerator and denominator of the finite numbers worked out exactly.
Limit == 30000

RECURSIVE Gcd(_, _)
Gcd(a, b) == IF b = 0 THEN a ELSE Only({Gcd(b, r) : r \in {a % b}})

\* The number v when it is within Limit.
Clip(v) == IF Abs(v[1]) > Limit \/ v[2] > Limit THEN Inexact ELSE v

\* The number n/d for any integers n and d >= 0 (d = 0 gives an infinity or NaN).
Norm(n, d) ==
    IF d = 1 THEN Clip(<<n, 1>>)
    ELSE IF d = 0 THEN <<Sign(n), 0>>
    ELSE Only({Clip(<<n \div g, d \div g>>) : g \in {Gcd(Abs(n), d)}})

\* ToNumber: undefined becomes NaN wherever it meets arithmetic or a Float32Array.
ToNumber(x) == IF x[2] = -1 THEN NaN ELSE x

isNaN(x) == ToNumber(x) = NaN

IsFinite(x) == x[2] >= 1 \/ x = Inexact

FNeg(x) == <<-x[1], x[2]>>

\* x + y for numbers x and y (not undefined).
FAddNum(x, y) ==
    IF x = Inexact \/ y = Inexact THEN Inexact
    ELSE IF x[2] = 1 /\ y[2] = 1 THEN Norm(x[1] + y[1], 1)
    ELSE IF x[2] = 0 /\ y[2] = 0 THEN (IF x = y THEN x ELSE NaN)
    ELSE IF x[2] = 0 \/ y[2] = 0 THEN Norm(x[1] * y[2] + y[1] * x[2], 0)
    ELSE Only({Norm(x[1] * (y[2] \div g) + y[1] * (x[2] \div g), (x[2] \div g) * y[2]) :
                  g \in {Gcd(x[2], y[2])}})

FAdd(x0, y0) == Only({FAddNum(x, y) : x \in {ToNumber(x0)}, y \in {ToNumber(y0)}})

FSub(x0, y0) == Only({FAddNum(x, FNeg(y)) : x \in {ToNumber(x0)}, y \in {ToNumber(y0)}})

\* x * y for numbers x and y.
FMulNum(x, y) ==
    IF x = Inexact \/ y = Inexact THEN Inexact
    ELSE IF x[2] = 1 /\ y[2] = 1 THEN Norm(x[1] * y[1], 1)
    ELSE Only({Norm(n, d) : n \in {x[1] * y[1]}, d \in {x[2] * y[2]}})

FMul(x0, y0) == Only({FMulNum(x, y) : x \in {ToNumber(x0)}, y \in {ToNumber(y0)}})

\* x / y for numbers x and y.
FDivNum(x, y) ==
    IF x = Inexact \/ y = Inexact THEN Inexact
    ELSE IF y[1] < 0
    THEN Only({Norm(n, d) : n \in {(-x[1]) * y[2]}, d \in {x[2] * (-y[1])}})
    ELSE Only({Norm(n, d) : n \in {x[1] * y[2]}, d \in {x[2] * y[1]}})

FDiv(x0, y0) == Only({FDivNum(x, y) : x \in {ToNumber(x0)}, y \in {ToNumber(y0)}})

\* x < y for numbers x and y; FALSE when either is NaN.
FLessNum(x, y) ==
    /\ x # NaN
    /\ y # NaN
    /\ x # Inexact
    /\ y # Inexact
    /\ IF x[2] = 0 /\ y[2] = 0 THEN x[1] < y[1]
       ELSE IF x[2] = 0 THEN x[1] < 0
       ELSE IF y[2] = 0 THEN y[1] > 0
       ELSE x[1] * y[2] < y[1] * x[2]

FLess(x0, y0) == Only({FLessNum(x, y) : x \in {ToNumber(x0)}, y \in {ToNumber(y0)}})

\* The largest r in lo..hi with r * r <= n, given lo * lo <= n.
RECURSIVE SqrtSearch(_, _, _)
SqrtSearch(n, lo, hi) ==
    IF lo >= hi THEN lo
    ELSE Only({IF mid * mid <= n THEN SqrtSearch(n, mid, hi) ELSE SqrtSearch(n, lo, mid - 1) :
                  mid \in {(lo + hi + 1) \div 2}})

FloorSqrt(n) == Only({SqrtSearch(n, 0, hi) : hi \in {Min(n, 46340)}})

\* Math.sqrt of a number.
SqrtNum(x) ==
    IF x = Inexact THEN Inexact
    ELSE IF x = NaN \/ x[1] < 0 THEN NaN
    ELSE IF x = PosInf THEN PosInf
    ELSE Only({IF r[1] * r[1] = x[1] /\ r[2] * r[2] = x[2] THEN r ELSE Inexact :
                  r \in {<<FloorSqrt(x[1]), FloorSqrt(x[2])>>}})

Sqrt(x0) == Only({SqrtNum(x) : x \in {ToNumber(x0)}})

\* Math.sqrt(x) < y for y > 0, decided on the squares when the root is no ratio.
SqrtLess(x0, y) ==
    Only({IF SqrtNum(x) = Inexact THEN x # Inexact /\ FLessNum(x, FMulNum(y, y))
          ELSE FLessNum(SqrtNum(x), y) : x \in {ToNumber(x0)}})

\* Math.abs(x) < y
AbsLess(x0, y) == Only({FLessNum(<<Abs(x[1]), x[2]>>, y) : x \in {ToNumber(x0)}})

---------------------------------------------------------------------------
(* Float32Array: a sequence of numbers, read and written by 0-based index *)

\* typedArray[i]: undefined outside [0, length).
Read(buf, i) == IF i >= 0 /\ i < Len(buf) THEN buf[i + 1] ELSE Undefined

\* typedArray[i] = v: a write outside [0, length) is ignored; undefined is stored as NaN.
Write(buf, i, v) ==
    IF i >= 0 /\ i < Len(buf) THEN [buf EXCEPT ![i + 1] = ToNumber(v)] ELSE buf

\* new Float32Array(n): n zeros.
ZeroArray(n) == Stored([k \in 1..n |-> Zero])

---------------------------------------------------------------------------
(* The Matrix class.  The operators of this section work on a Matrix whose  *)
(* mElements field holds the elements themselves; the actions further down  *)
(* place the elements in the heap.  A call that throws yields [err |-> c],  *)
(* c the code given to MatrixError (1 for the plain Error of                *)
(* strassenMultiply).                                                       *)

Thrown(code) == [err |-> code]

IsThrown(r) == "err" \in DOMAIN r

\* A call on the results of two calls: the first exception thrown is the outcome.
Bind2(Op(_, _), A0, B0) ==
    Only({IF IsThrown(A) THEN A ELSE IF IsThrown(B) THEN B ELSE Op(A, B) :
             A \in {A0}, B \in {B0}})

\* The decimal digits of a natural number, as a template literal prints them.
RECURSIVE Digits(_)
Digits(n) ==
    IF n < 10 THEN <<<<"0", "1", "2", "3", "4", "5", "6", "7", "8", "9">>[n + 1]>>
    ELSE Digits(n \div 10) \o Digits(n % 10)

\* The field initialisers of the class.
FieldDefaults ==
    [shape |-> <<"0">>, isSquare |-> FALSE, isTall |-> FALSE, isWide |-> FALSE]

updateSpecification(m) ==
    IF m.rows > m.columns THEN [m EXCEPT !.isTall = ~m.isTall]
    ELSE IF m.columns > m.rows THEN [m EXCEPT !.isWide = ~m.isWide]
    ELSE [m EXCEPT !.isSquare = ~m.isSquare]

updateShape(m) ==
    [m EXCEPT !.shape = <<"(">> \o Digits(m.rows) \o <<",">> \o Digits(m.columns) \o <<")">>]

updateMatrix(m0) == Only({updateShape(m) : m \in {updateSpecification(m0)}})

\* TRUE when validateFloatArray returns, FALSE when it throws.
validateFloatArray(entries) == \A i \in 1..Len(entries) : ~isNaN(entries[i])

\* An entry that is not of type number is modelled by undefined.
validateMatrixEntries(entries) ==
    /\ Len(entries) # 0
    /\ Len(entries[1]) # 0
    /\ \A i \in 1..Len(entries) :
          /\ Len(entries[i]) = Len(entries[1])
          /\ \A j \in 1..Len(entries[1]) : ~isNaN(entries[i][j])

\* The object the constructor leaves in `this`, given the storage it ends up holding.
NewObject(elements, rows, columns) ==
    Only({updateMatrix(m) :
             m \in {[mElements |-> elements, rows |-> rows, columns |-> columns,
                     size |-> rows * columns,
                     shape |-> FieldDefaults.shape, isSquare |-> FieldDefaults.isSquare,
                     isTall |-> FieldDefaults.isTall, isWide |-> FieldDefaults.isWide]}})

\* new Matrix(entries, rows, columns), entries a Float32Array.
MatrixFromFloat32Array(entries0, rows, columns) ==
    IF columns <= 0 \/ rows <= 0 THEN Thrown(804)
    ELSE Only({IF ~validateFloatArray(entries) THEN Thrown(805)
               ELSE NewObject(entries, rows, columns) : entries \in {entries0}})

\* The Float32Array the nested-sequence constructor fills.
NestedElements(entries) ==
    Stored([k \in 1..(Len(entries) * Len(entries[1])) |->
               ToNumber(entries[((k - 1) \div Len(entries[1])) + 1]
                               [((k - 1) % Len(entries[1])) + 1])])

\* new Matrix(entries), entries a number[][].
MatrixFromArray(entries0) ==
    Only({IF ~validateMatrixEntries(entries) THEN Thrown(803)
          ELSE Only({NewObject(elements, Len(entries), Len(entries[1])) :
                        elements \in {NestedElements(entries)}}) :
             entries \in {entries0}})

\* MatrixUtils.clone: a deep structural clone (new storage, same shape and flags).
clone(A) == A

\* MathUtils.isPowerOfTwo
RECURSIVE isPowerOfTwo(_)
isPowerOfTwo(n) ==
    IF n <= 0 THEN FALSE
    ELSE IF n = 1 THEN TRUE
    ELSE n % 2 = 0 /\ isPowerOfTwo(n \div 2)

\* The storage of the clone left as the clone has it.
transposeElementsKept(A, c) == c.mElements

\* The storage of the clone after the loops of transpose have copied `this` into it.
transposeElements(A, c) ==
    Stored([k \in 1..Len(c.mElements) |->
               IF (k - 1) \div A.rows < A.columns
               THEN ToNumber(Read(A.mElements,
                                  ((k - 1) % A.rows) * A.columns + ((k - 1) \div A.rows)))
               ELSE c.mElements[k]])

\* The flags left as the clone has them.
transposeFlagsKept(t) == t

\* The flags of the transposed matrix: tall and wide change places.
transposeFlags(t) ==
    IF t.isTall THEN [t EXCEPT !.isTall = FALSE, !.isWide = TRUE]
    ELSE IF t.isWide THEN [t EXCEPT !.isTall = TRUE, !.isWide = FALSE]
    ELSE t

transpose(A0) ==
    Only({Only({updateShape(f) :
                   f \in {transposeFlags([c EXCEPT !.mElements = elems,
                                                   !.rows = A.columns, !.columns = A.rows])}}) :
             A \in {A0}, c \in {clone(A0)}, elems \in {transposeElements(A0, clone(A0))}})

add(A0, B0) ==
    Only({IF A.shape # B.shape THEN Thrown(805)
          ELSE MatrixFromFloat32Array(
                   Stored([k \in 1..Len(A.mElements) |->
                              IF k <= A.size THEN FAdd(A.mElements[k], Read(B.mElements, k - 1))
                              ELSE A.mElements[k]]),
                   A.rows, A.columns) :
             A \in {A0}, B \in {B0}})

subtract(A0, B0) ==
    Only({IF A.shape # B.shape THEN Thrown(805)
          ELSE MatrixFromFloat32Array(
                   Stored([k \in 1..Len(A.mElements) |->
                              IF k <= A.size THEN FSub(A.mElements[k], Read(B.mElements, k - 1))
                              ELSE A.mElements[k]]),
                   A.rows, A.columns) :
             A \in {A0}, B \in {B0}})

scale(A0, scalar) ==
    Only({[c EXCEPT !.mElements =
                 Stored([k \in 1..Len(c.mElements) |-> FMul(c.mElements[k], scalar)])] :
             c \in {clone(A0)}})

getSubmatrix(A0, startRow, startCol, size) ==
    IF size <= 0 THEN Thrown(804)
    ELSE Only({MatrixFromFloat32Array(
                   Stored([k \in 1..(size * size) |->
                              ToNumber(Read(A.mElements,
                                            (startRow + ((k - 1) \div size)) * A.columns
                                                + (startCol + ((k - 1) % size))))]),
                   size, size) :
                  A \in {A0}})

\* Math.sqrt(n) rounded up: the number of values i = 0, 1, ... with i < Math.sqrt(n).
RECURSIVE CeilSqrtFrom(_, _)
CeilSqrtFrom(n, r) == IF r * r >= n THEN r ELSE CeilSqrtFrom(n, r + 1)

CeilSqrt(n) == CeilSqrtFrom(n, 0)

\* submatrixElements[i * size + j] with size = Math.sqrt(length), s its value rounded
\* up: when size is not an integer, i * size + j is an integer index only for i = 0.
BlockRead(block, s, i, j) ==
    IF s * s = Len(block) THEN Read(block, i * s + j)
    ELSE IF i = 0 THEN Read(block, j)
    ELSE Undefined

\* The storage elems of `this` after the assignments j, j + 1, ... of row i of
\* setSubmatrix's loops; `same` tells that block is the storage of `this` itself, so
\* that each read sees the assignments made before it.
RECURSIVE setSubmatrixRow(_, _, _, _, _, _, _, _, _)
setSubmatrixRow(elems, columns, startRow, startCol, block, same, s, i, j) ==
    IF j >= s THEN elems
    ELSE Only({setSubmatrixRow(next, columns, startRow, startCol, block, same, s, i, j1) :
                  next \in {Write(elems, (startRow + i) * columns + (startCol + j),
                                  BlockRead(IF same THEN elems ELSE block, s, i, j))},
                  j1 \in {j + 1}})

\* The same after the rows i, i + 1, ...
RECURSIVE setSubmatrixLoop(_, _, _, _, _, _, _, _)
setSubmatrixLoop(elems, columns, startRow, startCol, block, same, s, i) ==
    IF i >= s THEN elems
    ELSE Only({setSubmatrixLoop(next, columns, startRow, startCol, block, same, s, i1) :
                  next \in {setSubmatrixRow(elems, columns, startRow, startCol, block, same,
                                            s, i, 0)},
                  i1 \in {i + 1}})

\* The storage of `this` after this.setSubmatrix(startRow, startCol, block).
setSubmatrix(A0, startRow, startCol, block0, same) ==
    Only({setSubmatrixLoop(elems, A0.columns, startRow, startCol, block, same, s, 0) :
             elems \in {A0.mElements}, block \in {block0}, s \in {CeilSqrt(Len(block0))}})

\* The inner loop of naiveMultiply: u from k up to limit.
RECURSIVE unrolledLoop(_, _, _, _, _, _, _)
unrolledLoop(multipliersA, multipliersB, rowOffsetA, colOffsetB, u, limit, sum) ==
    IF u >= limit THEN sum
    ELSE Only({unrolledLoop(multipliersA, multipliersB, rowOffsetA, colOffsetB, u1, limit, s) :
                  u1 \in {u + 1},
                  s \in {FAdd(sum, FMul(Read(multipliersA, rowOffsetA + u),
                                        Read(multipliersB, colOffsetB + u)))}})

\* The loop over k of naiveMultiply, in steps of unrollingFactor.
RECURSIVE blockLoop(_, _, _, _, _, _, _, _)
blockLoop(multipliersA, multipliersB, rowOffsetA, colOffsetB, columns, unrollingFactor, k, sum) ==
    IF k >= columns THEN sum
    ELSE Only({blockLoop(multipliersA, multipliersB, rowOffsetA, colOffsetB, columns,
                         unrollingFactor, k1, s) :
                  k1 \in {k + unrollingFactor},
                  s \in {unrolledLoop(multipliersA, multipliersB, rowOffsetA, colOffsetB, k,
                                      Min(k + unrollingFactor, columns), sum)}})

\* The offset into the transposed B at which naiveMultiply reads the terms of column j.
colOffsetB(j, unrollingFactor) == j * unrollingFactor

\* result[rowOffsetResult + j] of naiveMultiply.
resultEntry(multipliersA, multipliersB, columns, unrollingFactor, i, j) ==
    Only({ToNumber(blockLoop(multipliersA, multipliersB, rowOffsetA, offsetB, columns,
                             unrollingFactor, 0, Zero)) :
             rowOffsetA \in {i * columns}, offsetB \in {colOffsetB(j, unrollingFactor)}})

naiveMultiply(A0, B0) ==
    IF A0.columns # B0.rows THEN Thrown(807)
    ELSE Only({MatrixFromFloat32Array(
                   Stored([n \in 1..(rows * matrixColumns) |->
                              resultEntry(multipliersA, multipliersB, columns, unrollingFactor,
                                          (n - 1) \div matrixColumns, (n - 1) % matrixColumns)]),
                   rows, matrixColumns) :
                  rows \in {A0.rows}, columns \in {A0.columns}, matrixColumns \in {B0.columns},
                  multipliersA \in {A0.mElements}, multipliersB \in {transpose(B0).mElements},
                  unrollingFactor \in {Min(A0.columns, 16)}})

\* The result matrix C with the quadrants C12 and C21 written at each other's offset.
strassenCombineCrossed(n, halfSize, C11, C12, C21, C22) ==
    Only({Only({Only({Only({
        [C3 EXCEPT !.mElements = setSubmatrix(C3, halfSize, halfSize, C22.mElements, FALSE)] :
        C3 \in {[C2 EXCEPT !.mElements = setSubmatrix(C2, halfSize, 0, C12.mElements, FALSE)]}}) :
        C2 \in {[C1 EXCEPT !.mElements = setSubmatrix(C1, 0, halfSize, C21.mElements, FALSE)]}}) :
        C1 \in {[C0 EXCEPT !.mElements = setSubmatrix(C0, 0, 0, C11.mElements, FALSE)]}}) :
        C0 \in {MatrixFromFloat32Array(ZeroArray(n * n), n, n)}})

\* The result matrix C of strassenMultiply after the four setSubmatrix calls.
strassenCombine(n, halfSize, C11, C12, C21, C22) ==
    Only({Only({Only({Only({
        [C3 EXCEPT !.mElements = setSubmatrix(C3, halfSize, halfSize, C22.mElements, FALSE)] :
        C3 \in {[C2 EXCEPT !.mElements = setSubmatrix(C2, halfSize, 0, C21.mElements, FALSE)]}}) :
        C2 \in {[C1 EXCEPT !.mElements = setSubmatrix(C1, 0, halfSize, C12.mElements, FALSE)]}}) :
        C1 \in {[C0 EXCEPT !.mElements = setSubmatrix(C0, 0, 0, C11.mElements, FALSE)]}}) :
        C0 \in {MatrixFromFloat32Array(ZeroArray(n * n), n, n)}})

\* The first exception among the outcomes, or <<>> when none threw.
RECURSIVE FirstThrown(_, _)
FirstThrown(parts, p) ==
    IF p > Len(parts) THEN <<>>
    ELSE IF IsThrown(parts[p]) THEN parts[p]
    ELSE FirstThrown(parts, p + 1)

RECURSIVE strassenMultiply(_, _)
\* The seven products of strassenMultiply and the result put together from them.
strassenProducts(n, halfSize, A11, A12, A21, A22, B11, B12, B21, B22) ==
    Only({IF FirstThrown(<<P1, P2, P3, P4, P5, P6, P7>>, 1) # <<>>
          THEN FirstThrown(<<P1, P2, P3, P4, P5, P6, P7>>, 1)
          ELSE Only({IF FirstThrown(<<C11, C12, C21, C22>>, 1) # <<>>
                     THEN FirstThrown(<<C11, C12, C21, C22>>, 1)
                     ELSE strassenCombine(n, halfSize, C11, C12, C21, C22) :
                        C11 \in {Bind2(add, Bind2(subtract, Bind2(add, P5, P4), P2), P6)},
                        C12 \in {Bind2(add, P1, P2)},
                        C21 \in {Bind2(add, P3, P4)},
                        C22 \in {Bind2(subtract, Bind2(subtract, Bind2(add, P5, P1), P3), P7)}}) :
             P1 \in {Bind2(strassenMultiply, A11, Bind2(subtract, B12, B22))},
             P2 \in {Bind2(strassenMultiply, Bind2(add, A11, A12), B22)},
             P3 \in {Bind2(strassenMultiply, Bind2(add, A21, A22), B11)},
             P4 \in {Bind2(strassenMultiply, A22, Bind2(subtract, B21, B11))},
             P5 \in {Bind2(strassenMultiply, Bind2(add, A11, A22), Bind2(add, B11, B22))},
             P6 \in {Bind2(strassenMultiply, Bind2(subtract, A12, A22), Bind2(add, B21, B22))},
             P7 \in {Bind2(strassenMultiply, Bind2(subtract, A11, A21), Bind2(add, B11, B12))}})

\* strassenMultiply once the matrices have passed its check and n > 2.
strassenDivide(A, other, n, halfSize) ==
    Only({IF FirstThrown(<<A11, A12, A21, A22, B11, B12, B21, B22>>, 1) # <<>>
          THEN FirstThrown(<<A11, A12, A21, A22, B11, B12, B21, B22>>, 1)
          ELSE strassenProducts(n, halfSize, A11, A12, A21, A22, B11, B12, B21, B22) :
             A11 \in {getSubmatrix(A, 0, 0, halfSize)},
             A12 \in {getSubmatrix(A, 0, halfSize, halfSize)},
             A21 \in {getSubmatrix(A, halfSize, 0, halfSize)},
             A22 \in {getSubmatrix(A, halfSize, halfSize, halfSize)},
             B11 \in {getSubmatrix(other, 0, 0, halfSize)},
             B12 \in {getSubmatrix(other, 0, halfSize, halfSize)},
             B21 \in {getSubmatrix(other, halfSize, 0, halfSize)},
             B22 \in {getSubmatrix(other, halfSize, halfSize, halfSize)}})

strassenMultiply(A0, other0) ==
    Only({IF ~A.isSquare \/ ~other.isSquare \/ A.columns # other.rows \/ ~isPowerOfTwo(A.rows)
          THEN Thrown(1)
          ELSE IF A.rows <= 2 THEN naiveMultiply(A, other)
          ELSE strassenDivide(A, other, A.rows, A.rows \div 2) :
             A \in {A0}, other \in {other0}})

\* DELTA of utils, a small positive tolerance.
DELTA == <<1, 4>>

\* MatrixUtils.roundMatrixToZero: the storage of A with every entry nearer to zero than
\* DELTA set to zero, in place.
roundMatrixToZero(A) ==
    Stored([k \in 1..Len(A.mElements) |->
               IF k <= A.size /\ AbsLess(A.mElements[k], DELTA) THEN Zero ELSE A.mElements[k]])

\* [val |-> the row] or the exception.
getRow(A, rowIndex) ==
    IF rowIndex < 0 \/ rowIndex >= A.rows THEN Thrown(800)
    ELSE [val |-> Stored([k \in 1..A.columns |->
                             Read(A.mElements, rowIndex * A.columns + k - 1)])]

\* [val |-> the column] or the exception.
getColumn(A, columnIndex) ==
    IF columnIndex < 0 \/ columnIndex >= A.rows THEN Thrown(800)
    ELSE [val |-> Stored([k \in 1..A.rows |->
                             Read(A.mElements, columnIndex + (k - 1) * A.columns)])]

\* [val |-> <<the element>>] or the exception.
getElement(A, row, column) ==
    Only({IF index > A.size \/ index < 0 THEN Thrown(800)
          ELSE [val |-> <<Read(A.mElements, index)>>] :
             index \in {row * A.columns + column}})

\* The storage of `this` after setElement(row, column, value), or the exception.
setElement(A, row, column, value) ==
    Only({IF index > A.size \/ index < 0 THEN Thrown(800)
          ELSE [mElements |-> Write(A.mElements, index, value)] :
             index \in {row * A.columns + column}})

\* vector[i] of a number[]: undefined outside the array.
At(vector, n) == IF n >= 1 /\ n <= Len(vector) THEN vector[n] ELSE Undefined

\* Matrix.dot after the terms n, n + 1, ... have been added to dotProduct.
RECURSIVE dotLoop(_, _, _, _)
dotLoop(vector1, vector2, n, dotProduct) ==
    IF n > Len(vector1) THEN dotProduct
    ELSE Only({dotLoop(vector1, vector2, n1, sum) :
                  n1 \in {n + 1},
                  sum \in {FAdd(dotProduct, FMul(vector1[n], At(vector2, n)))}})

dot(vector1, vector2) == dotLoop(vector1, vector2, 1, Zero)

\* vector.map(x => x ** 2).reduce((acc, x) => acc + x), for a vector that is not empty:
\* acc after the squares n, n + 1, ... have been added.
RECURSIVE sumOfSquaresLoop(_, _, _)
sumOfSquaresLoop(vector, n, acc) ==
    IF n > Len(vector) THEN acc
    ELSE Only({sumOfSquaresLoop(vector, n1, sum) :
                  n1 \in {n + 1}, sum \in {FAdd(acc, FMul(vector[n], vector[n]))}})

sumOfSquares(vector) == sumOfSquaresLoop(vector, 2, FMul(vector[1], vector[1]))

\* Matrix.normalize
normalize(vector1) ==
    Only({Stored([k \in 1..Len(vector1) |-> FMul(vector1[k], scalar)]) :
             scalar \in {FDiv(One, Sqrt(sumOfSquares(vector1)))}})

\* orthogonalProjection after the projections onto the orthogonal columns j, j + 1, ...
\* have been taken from it; v is column i of `this`.
RECURSIVE projectionLoop(_, _, _, _)
projectionLoop(orthogonalColumns, v, j, orthogonalProjection) ==
    IF j > Len(orthogonalColumns) THEN orthogonalProjection
    ELSE Only({Only({projectionLoop(orthogonalColumns, v, j1, next) :
                        j1 \in {j + 1},
                        next \in {Stored([k \in 1..Len(orthogonalProjection) |->
                                     FSub(orthogonalProjection[k],
                                          IF k <= Len(u) THEN FMul(u[k], scalar)
                                          ELSE Undefined)])}}) :
                  u \in {orthogonalColumns[j]},
                  scalar \in {FDiv(dot(orthogonalColumns[j], v),
                                   dot(orthogonalColumns[j], orthogonalColumns[j]))}})

\* [val |-> orthogonalColumns] once the columns i, i + 1, ... of A have been taken in,
\* or the exception.
RECURSIVE orthogonalize(_, _, _)
orthogonalize(A, i, orthogonalColumns) ==
    IF i >= A.columns THEN [val |-> orthogonalColumns]
    ELSE Only({IF IsThrown(column) THEN column
               ELSE Only({IF SqrtLess(sumOfSquares(orthogonalProjection), DELTA)
                          THEN Thrown(704)
                          ELSE Only({orthogonalize(A, i1, next) :
                                        i1 \in {i + 1},
                                        next \in {Append(orthogonalColumns,
                                                         orthogonalProjection)}}) :
                             orthogonalProjection \in
                                 {projectionLoop(orthogonalColumns, column.val, 1, column.val)}}) :
                  column \in {getColumn(A, i)}})

\* The matrix made of the normalized columns.
orthonormalMatrix(orthogonalColumns) ==
    Only({MatrixFromArray(
              Stored([r \in 1..Len(normalizedColumns[1]) |->
                         Stored([c \in 1..Len(normalizedColumns) |->
                                    At(normalizedColumns[c], r)])])) :
             normalizedColumns \in
                 {Stored([c \in 1..Len(orthogonalColumns) |-> normalize(orthogonalColumns[c])])}})

gramSmith(A0) ==
    Only({Only({IF IsThrown(first) THEN first
                ELSE Only({IF IsThrown(orthogonalColumns) THEN orthogonalColumns
                           ELSE orthonormalMatrix(orthogonalColumns.val) :
                              orthogonalColumns \in {orthogonalize(A, 1, <<first.val>>)}}) :
                   first \in {getColumn(A, 0)}}) :
             A \in {A0}})

\* [Q |-> Q, R |-> R, this |-> the storage of `this` afterwards], or the exception.
QRDecomposition(A0) ==
    Only({Only({IF IsThrown(Q) THEN Q
                ELSE Only({IF IsThrown(R) THEN R
                           ELSE [Q |-> Q, R |-> R, this |-> roundMatrixToZero(A)] :
                              R \in {naiveMultiply(transpose(Q), A)}}) :
                   Q \in {gramSmith(A)}}) :
             A \in {A0}})

\* The loops of Matrix.isUpperTriangular from entry (i, j) on: [val |-> <<the boolean>>,
\* reads |-> the (row, column) pairs handed to getElement], or the exception getElement
\* throws.
RECURSIVE upperTriangularLoop(_, _, _, _)
upperTriangularLoop(A, i, j, reads) ==
    IF i >= A.columns THEN [val |-> <<TRUE>>, reads |-> reads]
    ELSE IF j >= i THEN upperTriangularLoop(A, i + 1, 0, reads)
    ELSE Only({IF IsThrown(e) THEN e
               ELSE IF e.val[1] # Zero THEN [val |-> <<FALSE>>, reads |-> seen]
               ELSE upperTriangularLoop(A, i, j + 1, seen) :
                  e \in {getElement(A, i, j)}, seen \in {reads \cup {<<i, j>>}}})

isUpperTriangular(A) == upperTriangularLoop(A, 1, 0, {})

\* The loops of Matrix.isLowerTriangular from entry (j, i) on.
RECURSIVE lowerTriangularLoop(_, _, _, _)
lowerTriangularLoop(A, i, j, reads) ==
    IF i >= A.columns THEN [val |-> <<TRUE>>, reads |-> reads]
    ELSE IF j >= i THEN lowerTriangularLoop(A, i + 1, 0, reads)
    ELSE Only({IF IsThrown(e) THEN e
               ELSE IF e.val[1] # Zero THEN [val |-> <<FALSE>>, reads |-> seen]
               ELSE lowerTriangularLoop(A, i, j + 1, seen) :
                  e \in {getElement(A, j, i)}, seen \in {reads \cup {<<j, i>>}}})

isLowerTriangular(A) == lowerTriangularLoop(A, 1, 0, {})

\* An argument b of the substitutions: a number[] (Array.isArray holds) or another
\* object with indexed items, such as a Float32Array (it does not).
ArrayOf(items) == [isArray |-> TRUE, items |-> items]

TypedArrayOf(items) == [isArray |-> FALSE, items |-> items]

\* const sol = []: an array of which no index is assigned yet, read as undefined.
EmptySolution(rows) == Stored([k \in 1..rows |-> Undefined])

\* The same without the sum of the unknowns already solved.
solveEntryWithoutSum(bi, sum, currentDiag) == FDiv(bi, currentDiag)

\* sol[i] = (b[i] - sum) / currentDiag
solveEntry(bi, sum, currentDiag) == FDiv(FSub(bi, sum), currentDiag)

\* The inner loop of backSubstitution: sum after the terms j, j - 1, ..., i + 1; a
\* getElement that throws ends it with the exception.
RECURSIVE backSum(_, _, _, _, _)
backSum(A, sol, i, j, sum) ==
    IF j <= i THEN [val |-> <<sum>>]
    ELSE Only({IF IsThrown(e) THEN e
               ELSE Only({backSum(A, sol, i, j1, next) :
                             j1 \in {j - 1},
                             next \in {FAdd(sum, FMul(At(sol, j + 1), e.val[1]))}}) :
                  e \in {getElement(A, i, j)}})

\* The outer loop of backSubstitution from row i down: [val |-> sol] or the exception.
RECURSIVE backRows(_, _, _, _)
backRows(A, b, i, sol) ==
    IF i < 0 THEN [val |-> sol]
    ELSE Only({IF IsThrown(currentDiag) THEN currentDiag
               ELSE IF currentDiag.val[1] = Zero THEN Thrown(814)
               ELSE Only({IF IsThrown(sum) THEN sum
                          ELSE Only({backRows(A, b, i1, next) :
                                        i1 \in {i - 1},
                                        next \in {[sol EXCEPT ![i + 1] =
                                                      solveEntry(At(b.items, i + 1), sum.val[1],
                                                                 currentDiag.val[1])]}}) :
                             sum \in {backSum(A, sol, i, A.columns - 1, Zero)}}) :
                  currentDiag \in {getElement(A, i, i)}})

\* [val |-> the solution] or the exception.
backSubstitution(A0, b0) ==
    Only({Only({IF IsThrown(upper) THEN upper
                ELSE IF ~upper.val[1] THEN Thrown(815)
                ELSE IF ~b.isArray THEN Thrown(606)
                ELSE backRows(A, b, A.rows - 1, EmptySolution(A.rows)) :
                   upper \in {isUpperTriangular(A)}}) :
             A \in {A0}, b \in {b0}})

\* The inner loop of forwardSubstitution: sum after the terms j, j + 1, ..., i - 1.
RECURSIVE forwardSum(_, _, _, _, _)
forwardSum(A, sol, i, j, sum) ==
    IF j >= i THEN [val |-> <<sum>>]
    ELSE Only({IF IsThrown(e) THEN e
               ELSE Only({forwardSum(A, sol, i, j1, next) :
                             j1 \in {j + 1},
                             next \in {FAdd(sum, FMul(At(sol, j + 1), e.val[1]))}}) :
                  e \in {getElement(A, i, j)}})

\* The outer loop of forwardSubstitution from row i up.
RECURSIVE forwardRows(_, _, _, _)
forwardRows(A, b, i, sol) ==
    IF i >= A.rows THEN [val |-> sol]
    ELSE Only({IF IsThrown(currentDiag) THEN currentDiag
               ELSE IF currentDiag.val[1] = Zero THEN Thrown(814)
               ELSE Only({IF IsThrown(sum) THEN sum
                          ELSE Only({forwardRows(A, b, i1, next) :
                                        i1 \in {i + 1},
                                        next \in {[sol EXCEPT ![i + 1] =
                                                      solveEntry(At(b.items, i + 1), sum.val[1],
                                                                 currentDiag.val[1])]}}) :
                             sum \in {forwardSum(A, sol, i, 0, Zero)}}) :
                  currentDiag \in {getElement(A, i, i)}})

forwardSubstitution(A0, b0) ==
    Only({Only({IF IsThrown(lower) THEN lower
                ELSE IF ~lower.val[1] THEN Thrown(816)
                ELSE IF ~b.isArray THEN Thrown(606)
                ELSE forwardRows(A, b, 0, EmptySolution(A.rows)) :
                   lower \in {isLowerTriangular(A)}}) :
             A \in {A0}, b \in {b0}})

\* Matrix.identity
identity(dimension) ==
    IF dimension <= 0 THEN Thrown(606)
    ELSE MatrixFromArray(Stored([i \in 1..dimension |->
                                    Stored([j \in 1..dimension |->
                                               IF i = j THEN One ELSE Zero])]))

\* new Matrix(invertedMatrixElements), left as its rows are.
invertedMatrixRows(solutions) ==
    IF FirstThrown(solutions, 1) # <<>> THEN FirstThrown(solutions, 1)
    ELSE MatrixFromArray(Stored([k \in 1..Len(solutions) |-> solutions[k].val]))

\* new Matrix(invertedMatrixElements).transpose(), given the outcomes of the
\* substitutions in the order of the rows of the identity.
invertedMatrix(solutions) ==
    IF FirstThrown(solutions, 1) # <<>> THEN FirstThrown(solutions, 1)
    ELSE Only({IF IsThrown(M) THEN M ELSE transpose(M) :
                  M \in {MatrixFromArray(Stored([k \in 1..Len(solutions) |->
                                                    solutions[k].val]))}})

invertUpper(A0) ==
    Only({IF ~A.isSquare THEN Thrown(812)
          ELSE Only({IF IsThrown(upper) THEN upper
                     ELSE IF ~upper.val[1] THEN Thrown(815)
                     ELSE Only({invertedMatrix(
                                    Stored([k \in 1..A.rows |->
                                               backSubstitution(
                                                   A, ArrayOf(getRow(identityMatrix, k - 1).val))])) :
                                   identityMatrix \in {identity(A.rows)}}) :
                        upper \in {isUpperTriangular(A)}}) :
             A \in {A0}})

invertLower(A0) ==
    Only({IF ~A.isSquare THEN Thrown(812)
          ELSE Only({IF IsThrown(lower) THEN lower
                     ELSE IF ~lower.val[1] THEN Thrown(815)
                     ELSE Only({invertedMatrix(
                                    Stored([k \in 1..A.rows |->
                                               forwardSubstitution(
                                                   A, ArrayOf(getRow(identityMatrix, k - 1).val))])) :
                                   identityMatrix \in {identity(A.rows)}}) :
                        lower \in {isLowerTriangular(A)}}) :
             A \in {A0}})

\* newEntries[rowIndex][colIndex] = array[i], rowIndex and colIndex counted from 0; the
\* row is made first when there is none yet.
putEntry(newEntries, rowIndex, colIndex, value) ==
    Only({[rows EXCEPT ![rowIndex + 1] = Append(rows[rowIndex + 1], value)] :
             rows \in {IF rowIndex + 1 > Len(newEntries) THEN Append(newEntries, <<>>)
                       ELSE newEntries}})

\* The loop of Matrix.reshape from array[i] on: the nested array it builds.
RECURSIVE reshapeLoop(_, _, _, _, _, _)
reshapeLoop(array, newColumns, i, rowIndex, colIndex, newEntries) ==
    IF i >= Len(array) THEN newEntries
    ELSE IF colIndex = newColumns
    THEN reshapeLoop(array, newColumns, i, rowIndex + 1, 0, newEntries)
    ELSE Only({reshapeLoop(array, newColumns, i1, rowIndex, c1, next) :
                  i1 \in {i + 1}, c1 \in {colIndex + 1},
                  next \in {putEntry(newEntries, rowIndex, colIndex, array[i + 1])}})

\* Matrix.reshape, for an array and integers newRows and newColumns.
reshape(array, newRows, newColumns) ==
    IF Len(array) # newRows * newColumns THEN Thrown(806)
    ELSE MatrixFromArray(reshapeLoop(array, newColumns, 0, 0, 0, <<>>))

\* Every number of the matrix is worked out.
IsExact(A) == Inexact \notin {A.mElements[k] : k \in 1..Len(A.mElements)}

---------------------------------------------------------------------------
(* The state: the Float32Arrays, the Matrix objects, and the last call.      *)
(*   heap        the Float32Arrays allocated so far                          *)
(*   mats        the Matrix objects made so far; mElements indexes heap      *)
(*   origin      for each object, the call that returned it and its operands *)
(*   callerBufs  the Float32Arrays the calling code allocated and kept       *)
(*   last        the last call: its name, receiver, arguments and outcome    *)
(*   task        the addasync call in progress, if any                       *)

\* The object m with its elements in place of the reference to them.
View(m) == [mats[m] EXCEPT !.mElements = heap[mats[m].mElements]]

Elements(m) == heap[mats[m].mElements]

Objects == 1..Len(mats)

\* The record of a call; n counts the calls made so far.
Call(op, this, args, err, ret, val) ==
    [op |-> op, this |-> this, args |-> args, err |-> err, ret |-> ret, val |-> val,
     n |-> last.n + 1]

NoCall ==
    [op |-> "none", this |-> 0, args |-> <<>>, err |-> 0, ret |-> 0, val |-> <<>>, n |-> 0]

NoTask == [pc |-> "idle"]

\* new Float32Array(n) or new Float32Array(values): fresh storage holding elems.
Float32ArrayNew(h, elems) == [heap |-> Append(h, elems), ref |-> Len(h) + 1]

\* The storage itself in place of a copy of it.
Float32ArrayShared(h, ref) == [heap |-> h, ref |-> ref]

\* new Float32Array(typedArray): fresh storage holding a copy of heap[ref].
Float32ArrayCopy(h, ref) == [heap |-> Append(h, h[ref]), ref |-> Len(h) + 1]

\* this.mElements = entries: the constructor keeps the caller's Float32Array.
AdoptEntries(h, ref) == [heap |-> h, ref |-> ref]

\* The state after a call that returns the new object r, placed in storage a.
Returns(op, this, operands, args, r, a) ==
    /\ IsExact(r)
    /\ heap' = [a.heap EXCEPT ![a.ref] = r.mElements]
    /\ mats' = Append(mats, [r EXCEPT !.mElements = a.ref])
    /\ origin' = Append(origin, [op |-> op, operands |-> operands])
    /\ last' = Call(op, this, args, 0, Len(mats) + 1, <<>>)
    /\ UNCHANGED <<callerBufs, task>>

\* The state after a call that throws the exception r.
Throws(op, this, args, r) ==
    /\ last' = Call(op, this, args, r.err, 0, <<>>)
    /\ UNCHANGED <<heap, mats, origin, callerBufs, task>>

---------------------------------------------------------------------------
(* Bounds and inputs *)

\* The largest number of rows or columns of the matrices of the general inputs.
MaxDim == 2

\* The number of calls in a run.
MaxOps == 2

\* The largest number of processors os.cpus() reports.
MaxP == 3

\* A non-zero value below DELTA.
Tiny == <<1, 8>>

Palette == <<Num(1), Num(2), Zero, Num(-1), Tiny, PosInf>>

\* The k-th value (k = 0, 1, ...) of the input sequence numbered seed.
Pattern(seed, k) == Palette[((seed + k) % Len(Palette)) + 1]

Seeds == {0, 4}

\* An r x c nested array.
Grid(r, c, seed) ==
    Stored([i \in 1..r |-> Stored([j \in 1..c |-> Pattern(seed, (i - 1) * c + (j - 1))])])

\* An r x c nested array of the integers -1, 0 and 1.
IntegerGrid(r, c, seed) ==
    Stored([i \in 1..r |-> Stored([j \in 1..c |-> Num(((i * j + seed * (i + j)) % 3) - 1)])])

Shapes == {<<n, n>> : n \in 1..MaxDim} \cup {<<1, MaxDim>>, <<MaxDim, 1>>}

\* Well-formed arguments of the nested-sequence constructor.
WellFormedInputs == {Grid(s[1], s[2], seed) : s \in Shapes, seed \in Seeds}

\* The arguments given to the nested-sequence constructor: well-formed ones, and an
\* empty one, a ragged one and one holding NaN.
NestedInputs ==
    WellFormedInputs \cup {<<>>, <<<<One, Num(2)>>, <<One>>>>, <<<<One, NaN>>>>}

\* The Float32Arrays the calling code allocates.
FlatInputs == {Stored([k \in 1..(MaxDim * MaxDim) |-> Pattern(0, k - 1)])}

\* The values written by setElement and by the calling code, and the scalars of scale.
WriteValues == {Num(7), NaN}

ScaleValues == {Num(2), PosInf}

\* A run makes at most MaxOps calls and ends at the first exception.
Budget == last.n < MaxOps /\ last.err = 0 /\ task = NoTask

---------------------------------------------------------------------------
(* The calls *)

\* new Matrix(entries) with a nested array.
ConstructNested(entries) ==
    /\ Budget
    /\ \E r \in {MatrixFromArray(entries)} :
          IF IsThrown(r) THEN Throws("new", 0, <<entries>>, r)
          ELSE \E s \in {Float32ArrayNew(heap, r.mElements)} :
                  Returns("new", 0, {}, <<entries>>, r, s)

\* new Matrix(entries, rows, columns) with a Float32Array the calling code holds.
ConstructFlat(b, rows, columns) ==
    /\ Budget
    /\ \E r \in {MatrixFromFloat32Array(heap[b], rows, columns)} :
          IF IsThrown(r) THEN Throws("newFlat", 0, <<b, rows, columns>>, r)
          ELSE \E s \in {AdoptEntries(heap, b)} :
                  Returns("newFlat", 0, {}, <<b, rows, columns>>, r, s)

\* The calling code writes into a Float32Array it holds: b[i] = v.
CallerWrite(b, i, v) ==
    /\ Budget
    /\ heap' = [heap EXCEPT ![b] = Write(heap[b], i, v)]
    /\ last' = Call("callerWrite", 0, <<b, i>>, 0, 0, <<v>>)
    /\ UNCHANGED <<mats, origin, callerBufs, task>>

SetElement(m, row, column, value) ==
    /\ Budget
    /\ \E r \in {setElement(View(m), row, column, value)} :
          IF IsThrown(r) THEN Throws("setElement", m, <<row, column>>, r)
          ELSE /\ heap' = [heap EXCEPT ![mats[m].mElements] = r.mElements]
               /\ last' = Call("setElement", m, <<row, column>>, 0, 0, <<value>>)
               /\ UNCHANGED <<mats, origin, callerBufs, task>>

SetSubmatrix(m, startRow, startCol, block) ==
    /\ Budget
    /\ heap' = [heap EXCEPT ![mats[m].mElements] =
                    setSubmatrix(View(m), startRow, startCol, heap[block],
                                 block = mats[m].mElements)]
    /\ last' = Call("setSubmatrix", m, <<startRow, startCol, block>>, 0, 0, <<>>)
    /\ UNCHANGED <<mats, origin, callerBufs, task>>

GetSubmatrix(m, startRow, startCol, size) ==
    /\ Budget
    /\ \E r \in {getSubmatrix(View(m), startRow, startCol, size)} :
          IF IsThrown(r) THEN Throws("getSubmatrix", m, <<startRow, startCol, size>>, r)
          ELSE \E s \in {Float32ArrayNew(heap, r.mElements)} :
                  Returns("getSubmatrix", m, {m}, <<startRow, startCol, size>>, r, s)

Add(a, b) ==
    /\ Budget
    /\ \E r \in {add(View(a), View(b))} :
          IF IsThrown(r) THEN Throws("add", a, <<b>>, r)
          ELSE \E s \in {Float32ArrayCopy(heap, mats[a].mElements)} : Returns("add", a, {a, b}, <<b>>, r, s)

Subtract(a, b) ==
    /\ Budget
    /\ \E r \in {subtract(View(a), View(b))} :
          IF IsThrown(r) THEN Throws("subtract", a, <<b>>, r)
          ELSE \E s \in {Float32ArrayCopy(heap, mats[a].mElements)} : Returns("subtract", a, {a, b}, <<b>>, r, s)

Scale(a, scalar) ==
    /\ Budget
    /\ \E r \in {scale(View(a), scalar)} :
          \E s \in {Float32ArrayNew(heap, r.mElements)} :
             Returns("scale", a, {a}, <<scalar>>, r, s)

NaiveMultiply(a, b) ==
    /\ Budget
    /\ \E r \in {naiveMultiply(View(a), View(b))} :
          IF IsThrown(r) THEN Throws("naiveMultiply", a, <<b>>, r)
          ELSE \E s \in {Float32ArrayNew(heap, r.mElements)} : Returns("naiveMultiply", a, {a, b}, <<b>>, r, s)

StrassenMultiply(a, b) ==
    /\ Budget
    /\ \E r \in {strassenMultiply(View(a), View(b))} :
          IF IsThrown(r) THEN Throws("strassenMultiply", a, <<b>>, r)
          ELSE \E s \in {Float32ArrayNew(heap, r.mElements)} : Returns("strassenMultiply", a, {a, b}, <<b>>, r, s)

Transpose(a) ==
    /\ Budget
    /\ \E r \in {transpose(View(a))} :
          \E s \in {Float32ArrayNew(heap, r.mElements)} :
             Returns("transpose", a, {a}, <<>>, r, s)

\* gramSmith, on the matrices whose orthonormal columns the model works out.
GramSmith(a) ==
    /\ Budget
    /\ \E r \in {gramSmith(View(a))} :
          IF IsThrown(r) THEN Throws("gramSmith", a, <<>>, r)
          ELSE \E s \in {Float32ArrayNew(heap, r.mElements)} :
                  Returns("gramSmith", a, {a}, <<>>, r, s)

\* QRDecomposition, on the same matrices: Q and R are the two objects returned.
QRDecompose(a) ==
    /\ Budget
    /\ \E r \in {QRDecomposition(View(a))} :
          IF IsThrown(r) THEN Throws("QRDecomposition", a, <<>>, r)
          ELSE /\ IsExact(r.Q)
               /\ IsExact(r.R)
               /\ heap' = [heap EXCEPT ![mats[a].mElements] = r.this]
                              \o <<r.Q.mElements, r.R.mElements>>
               /\ mats' = mats \o <<[r.Q EXCEPT !.mElements = Len(heap) + 1],
                                    [r.R EXCEPT !.mElements = Len(heap) + 2]>>
               /\ origin' = origin \o <<[op |-> "QRDecomposition", operands |-> {a}],
                                        [op |-> "QRDecomposition", operands |-> {a}]>>
               /\ last' = Call("QRDecomposition", a, <<>>, 0, Len(mats) + 1, <<>>)
               /\ UNCHANGED <<callerBufs, task>>

\* The getters: the value returned is kept in last.val.
Get(op, m, args, r) ==
    /\ Budget
    /\ last' = IF IsThrown(r) THEN Call(op, m, args, r.err, 0, <<>>)
               ELSE Call(op, m, args, 0, 0, r.val)
    /\ UNCHANGED <<heap, mats, origin, callerBufs, task>>

GetElement(m, row, column) ==
    \E r \in {getElement(View(m), row, column)} : Get("getElement", m, <<row, column>>, r)

GetRow(m, rowIndex) ==
    \E r \in {getRow(View(m), rowIndex)} : Get("getRow", m, <<rowIndex>>, r)

GetColumn(m, columnIndex) ==
    \E r \in {getColumn(View(m), columnIndex)} : Get("getColumn", m, <<columnIndex>>, r)

---------------------------------------------------------------------------
(* The specification of the class: any MaxOps calls, one after the other. *)

\* One Float32Array held by the calling code, and one Matrix made from a nested array.
Init ==
    /\ \E f \in FlatInputs, entries \in WellFormedInputs \cup {IntegerGrid(4, 4, 1)} :
          \E r \in {MatrixFromArray(entries)} :
             /\ heap = <<f, r.mElements>>
             /\ mats = <<[r EXCEPT !.mElements = 2]>>
    /\ origin = <<[op |-> "new", operands |-> {}]>>
    /\ callerBufs = {1}
    /\ last = NoCall
    /\ task = NoTask

Next ==
    \/ \E entries \in NestedInputs : ConstructNested(entries)
    \/ \E b \in callerBufs, s \in Shapes \cup {<<0, 1>>} : ConstructFlat(b, s[1], s[2])
    \/ \E b \in callerBufs, v \in WriteValues : CallerWrite(b, 0, v)
    \/ \E m \in Objects, i \in {0, MaxDim}, v \in WriteValues : SetElement(m, i, i, v)
    \/ \E m \in Objects, start \in 0..1, block \in callerBufs :
          SetSubmatrix(m, start, start, block)
    \/ \E m \in Objects, start \in 0..1, size \in 0..(MaxDim - 1) :
          GetSubmatrix(m, start, start, size)
    \/ \E a \in Objects, b \in Objects : Add(a, b)
    \/ \E a \in Objects, b \in Objects : Subtract(a, b)
    \/ \E a \in Objects, scalar \in ScaleValues : Scale(a, scalar)
    \/ \E a \in Objects, b \in Objects : NaiveMultiply(a, b)
    \/ \E a \in Objects, b \in Objects : StrassenMultiply(a, b)
    \/ \E a \in Objects : Transpose(a)
    \/ \E a \in Objects : GramSmith(a)
    \/ \E a \in Objects : QRDecompose(a)

Spec == Init /\ [][Next]_vars

---------------------------------------------------------------------------
(* The element accessors: any MaxOps calls of getElement, getRow, getColumn   *)
(* and setElement, with indices from one below the first to one past the last *)
(* of the general inputs.                                                     *)

Indices == (-1)..MaxDim

NextAccess ==
    \/ \E m \in Objects, row \in Indices, column \in Indices : GetElement(m, row, column)
    \/ \E m \in Objects, rowIndex \in Indices : GetRow(m, rowIndex)
    \/ \E m \in Objects, columnIndex \in Indices : GetColumn(m, columnIndex)
    \/ \E m \in Objects, row \in Indices, column \in Indices :
          SetElement(m, row, column, Num(7))

SpecAccess == Init /\ [][NextAccess]_vars

---------------------------------------------------------------------------
(* Multiplication: two matrices A and B of integers, and the calls            *)
(* A.naiveMultiply(B) and A.strassenMultiply(B).                              *)

\* Two Matrix objects made from nested arrays of the set inputs.
InitOperands(inputs) ==
    /\ \E x \in inputs, y \in inputs :
          \E A \in {MatrixFromArray(x)}, B \in {MatrixFromArray(y)} :
             /\ heap = <<A.mElements, B.mElements>>
             /\ mats = <<[A EXCEPT !.mElements = 1], [B EXCEPT !.mElements = 2]>>
    /\ origin = <<[op |-> "new", operands |-> {}], [op |-> "new", operands |-> {}]>>
    /\ callerBufs = {}
    /\ last = NoCall
    /\ task = NoTask

\* Operands of the general shapes and of 4 x 4, and operands with an inner dimension
\* above the unrolling factor: 1 x 17 by 17 x 2, and 32 x 32 by 32 x 32.
MultiplyInputs ==
    {IntegerGrid(s[1], s[2], seed) : s \in Shapes \cup {<<4, 4>>}, seed \in 0..1}
        \cup {IntegerGrid(1, 17, 0), IntegerGrid(17, 2, 0),
              IntegerGrid(32, 32, 0), IntegerGrid(32, 32, 1)}

InitMultiply == InitOperands(MultiplyInputs)

NextMultiply ==
    \/ NaiveMultiply(1, 2)
    \/ StrassenMultiply(1, 2)

SpecMultiply == InitMultiply /\ [][NextMultiply]_vars

---------------------------------------------------------------------------
(* addasync: the call starts, its chunk tasks run, and once Promise.all has   *)
(* resolved the result is constructed.  The executors of the promises run in  *)
(* the order of their index; the model lets them run in any order, that order *)
(* among them.                                                                *)

\* a / b rounded down.
FloorDiv(a, b) == a \div b

\* Math.ceil(a / b) for a >= 0 and b >= 1.
CeilDiv(a, b) == (a + b - 1) \div b

\* The loop of one chunk: resultElements[j] += B.mElements[j] for j from start up to end.
RECURSIVE chunkLoop(_, _, _, _)
chunkLoop(resultElements, elementsB, j, end) ==
    IF j >= end THEN resultElements
    ELSE Only({chunkLoop(next, elementsB, j1, end) :
                  j1 \in {j + 1},
                  next \in {Write(resultElements, j,
                                  FAdd(Read(resultElements, j), Read(elementsB, j)))}})

\* The indices j at which the loop of one chunk assigns resultElements[j], in order.
RECURSIVE chunkWrites(_, _)
chunkWrites(j, end) == IF j >= end THEN <<>> ELSE <<j>> \o chunkWrites(j + 1, end)

\* Some promise has resolved.
AnyResolved(t) == t.resolved # {}

\* Promise.all(promises) has resolved: every promise has.
AllResolved(t) == t.resolved = 0..(t.numProcessors - 1)

\* The call up to the loop that makes the promises.
AddAsyncStart(a, b, numProcessors) ==
    /\ Budget
    /\ IF mats[a].shape # mats[b].shape
       THEN Throws("addasync", a, <<b, numProcessors>>, Thrown(805))
       ELSE \E s \in {Float32ArrayCopy(heap, mats[a].mElements)} :
               /\ heap' = s.heap
               /\ task' = [pc |-> "chunks", this |-> a, B |-> b, resultElements |-> s.ref,
                           size |-> mats[a].size, numProcessors |-> numProcessors,
                           chunkSize |-> CeilDiv(mats[a].size, numProcessors),
                           resolved |-> {},
                           written |-> [i \in 0..(numProcessors - 1) |-> <<>>]]
               /\ UNCHANGED <<mats, origin, callerBufs, last>>

\* The executor of promise i: it adds its chunk and resolves; task.written[i] keeps the
\* indices it assigned.
ChunkTask(i) ==
    /\ task.pc = "chunks"
    /\ i \in 0..(task.numProcessors - 1)
    /\ i \notin task.resolved
    /\ \E start \in {i * task.chunkSize} :
          \E end \in {Min(start + task.chunkSize, task.size)} :
             heap' = [heap EXCEPT ![task.resultElements] =
                         chunkLoop(heap[task.resultElements], Elements(task.B), start, end)]
    /\ task' = [task EXCEPT !.resolved = task.resolved \cup {i},
                            !.written[i] =
                                chunkWrites(i * task.chunkSize,
                                            Min(i * task.chunkSize + task.chunkSize, task.size))]
    /\ UNCHANGED <<mats, origin, callerBufs, last>>

\* The call from the await on: the set of the promises resolved by then is kept in
\* last.val.
AddAsyncJoin ==
    /\ task.pc = "chunks"
    /\ AllResolved(task)
    /\ \E r \in {MatrixFromFloat32Array(heap[task.resultElements],
                                        mats[task.this].rows, mats[task.this].columns)} :
          IF IsThrown(r)
          THEN /\ last' = Call("addasync", task.this, <<task.B, task.numProcessors>>, r.err, 0,
                               <<task.resolved>>)
               /\ UNCHANGED <<heap, mats, origin>>
          ELSE /\ IsExact(r)
               /\ mats' = Append(mats, [r EXCEPT !.mElements = task.resultElements])
               /\ origin' = Append(origin, [op |-> "addasync",
                                            operands |-> {task.this, task.B}])
               /\ last' = Call("addasync", task.this, <<task.B, task.numProcessors>>, 0,
                               Len(mats) + 1, <<task.resolved>>)
               /\ UNCHANGED heap
    /\ task' = NoTask
    /\ UNCHANGED callerBufs

\* The operands: the general inputs built from the first seed.
AsyncInputs == {Grid(s[1], s[2], 0) : s \in Shapes} \cup {Grid(1, 1, 4)}

InitAsync == InitOperands(AsyncInputs)

NextAsync ==
    \/ \E a \in Objects, b \in Objects, numProcessors \in 1..MaxP :
          AddAsyncStart(a, b, numProcessors)
    \/ \E i \in 0..(MaxP - 1) : ChunkTask(i)
    \/ AddAsyncJoin

SpecAsync == InitAsync /\ [][NextAsync]_vars

---------------------------------------------------------------------------
(* Triangular systems: one Matrix, and the calls of the triangular predicates, *)
(* the substitutions and the triangular inversions on it.                      *)

\* The nested array of the integers of rows.
Ints(rows) ==
    Stored([i \in 1..Len(rows) |-> Stored([j \in 1..Len(rows[i]) |-> Num(rows[i][j])])])

\* One Matrix made from a nested array of the set inputs.
InitMatrix(inputs) ==
    /\ \E x \in inputs :
          \E A \in {MatrixFromArray(x)} :
             /\ heap = <<A.mElements>>
             /\ mats = <<[A EXCEPT !.mElements = 1]>>
    /\ origin = <<[op |-> "new", operands |-> {}]>>
    /\ callerBufs = {}
    /\ last = NoCall
    /\ task = NoTask

\* Every 2 x 2 matrix of the entries 0, 1 and 2; 1 x 1 and 3 x 3 triangular matrices,
\* with and without a zero on the diagonal; tall and wide matrices.
SolveInputs ==
    {Ints(<<<<a, b>>, <<c, d>>>>) : a \in 0..2, b \in 0..2, c \in 0..2, d \in 0..2}
        \cup {Ints(<<<<2>>>>), Ints(<<<<0>>>>),
              Ints(<<<<1, 2, -1>>, <<0, 2, 1>>, <<0, 0, -1>>>>),
              Ints(<<<<1, 0, 0>>, <<2, 2, 0>>, <<-1, 1, -1>>>>),
              Ints(<<<<1, 2, -1>>, <<0, 0, 1>>, <<0, 0, -1>>>>),
              Ints(<<<<1, 2, 1>>, <<0, 2, 1>>, <<1, 0, 1>>>>),
              Ints(<<<<1>>, <<2>>>>), Ints(<<<<1, 1>>, <<0, 1>>, <<0, 0>>>>),
              Ints(<<<<1, 0>>>>), Ints(<<<<1, 2>>>>), Ints(<<<<1, 0, 0>>>>),
              Ints(<<<<1, 0, 0>>, <<0, 1, 0>>>>)}

\* The values of the right-hand sides.
RightHandSide == <<Num(3), Num(-2), Num(1), Num(4)>>

\* The arguments b given to the substitutions on a matrix of the given number of rows:
\* arrays of that length, of one less and of one more, and a Float32Array.
SolveArguments(rows) ==
    {ArrayOf(SubSeq(RightHandSide, 1, n)) : n \in {rows - 1, rows, rows + 1}}
        \cup {ArrayOf(SubSeq(RightHandSide, 2, rows + 1)),
              TypedArrayOf(SubSeq(RightHandSide, 1, rows))}

\* Matrix.isUpperTriangular(m), Matrix.isLowerTriangular(m): the boolean returned and
\* the entries asked of getElement are kept in last.val.
IsUpperTriangular(m) ==
    \E r \in {isUpperTriangular(View(m))} :
       Get("isUpperTriangular", m, <<>>,
           IF IsThrown(r) THEN r ELSE [val |-> <<r.val[1], r.reads>>])

IsLowerTriangular(m) ==
    \E r \in {isLowerTriangular(View(m))} :
       Get("isLowerTriangular", m, <<>>,
           IF IsThrown(r) THEN r ELSE [val |-> <<r.val[1], r.reads>>])

BackSubstitution(m, b) ==
    \E r \in {backSubstitution(View(m), b)} : Get("backSubstitution", m, <<b>>, r)

ForwardSubstitution(m, b) ==
    \E r \in {forwardSubstitution(View(m), b)} : Get("forwardSubstitution", m, <<b>>, r)

InvertUpper(a) ==
    /\ Budget
    /\ \E r \in {invertUpper(View(a))} :
          IF IsThrown(r) THEN Throws("invertUpper", a, <<>>, r)
          ELSE \E s \in {Float32ArrayNew(heap, r.mElements)} :
                  Returns("invertUpper", a, {a}, <<>>, r, s)

InvertLower(a) ==
    /\ Budget
    /\ \E r \in {invertLower(View(a))} :
          IF IsThrown(r) THEN Throws("invertLower", a, <<>>, r)
          ELSE \E s \in {Float32ArrayNew(heap, r.mElements)} :
                  Returns("invertLower", a, {a}, <<>>, r, s)

InitSolve == InitMatrix(SolveInputs)

NextSolve ==
    \/ \E m \in Objects : IsUpperTriangular(m)
    \/ \E m \in Objects : IsLowerTriangular(m)
    \/ \E m \in Objects : \E b \in SolveArguments(mats[m].rows) : BackSubstitution(m, b)
    \/ \E m \in Objects : \E b \in SolveArguments(mats[m].rows) : ForwardSubstitution(m, b)
    \/ \E a \in Objects : InvertUpper(a)
    \/ \E a \in Objects : InvertLower(a)

SpecSolve == InitSolve /\ [][NextSolve]_vars

---------------------------------------------------------------------------
(* reshape: one call of Matrix.reshape, with arrays of up to MaxDim * (MaxDim + 1) *)
(* numbers and dimensions from -(MaxDim + 1) to MaxDim + 1.                       *)

Reshape(array, newRows, newColumns) ==
    /\ Budget
    /\ \E r \in {reshape(array, newRows, newColumns)} :
          IF IsThrown(r) THEN Throws("reshape", 0, <<array, newRows, newColumns>>, r)
          ELSE \E s \in {Float32ArrayNew(heap, r.mElements)} :
                  Returns("reshape", 0, {}, <<array, newRows, newColumns>>, r, s)

\* The arrays 1, 2, ..., n.
ReshapeArrays == {Stored([k \in 1..n |-> Num(k)]) : n \in 0..(MaxDim * (MaxDim + 1))}

ReshapeDimensions == (-(MaxDim + 1))..(MaxDim + 1)

\* No Matrix and no call yet.
InitReshape ==
    /\ heap = <<>>
    /\ mats = <<>>
    /\ origin = <<>>
    /\ callerBufs = {}
    /\ last = NoCall
    /\ task = NoTask

NextReshape ==
    \E array \in ReshapeArrays, newRows \in ReshapeDimensions, newColumns \in ReshapeDimensions :
       Len(mats) = 0 /\ Reshape(array, newRows, newColumns)

SpecReshape == InitReshape /\ [][NextReshape]_vars

---------------------------------------------------------------------------
(* Gram-Schmidt: one Matrix of small integers, square, tall or wide, and the  *)
(* call of gramSmith on it.                                                   *)

InitGram == InitMatrix(SolveInputs)

NextGram == GramSmith(1)

SpecGram == InitGram /\ [][NextGram]_vars

---------------------------------------------------------------------------
(* Submatrices: one Matrix of up to (MaxDim + 1) x (MaxDim + 1) integers, and *)
(* Float32Arrays of 1 to MaxDim * MaxDim + 1 values held by the calling code, *)
(* given as blocks to setSubmatrix; getSubmatrix reads the blocks back.       *)

\* The block of the values 11, 12, ... of length n.
Block(n) == Stored([k \in 1..n |-> Num(10 + k)])

BlockLengths == 1..(MaxDim * MaxDim + 1)

\* The Matrix is object 1 with storage heap[1]; the block of length n is heap[n + 1].
InitSubmatrix ==
    /\ \E r \in 1..(MaxDim + 1), c \in 1..(MaxDim + 1) :
          \E A \in {MatrixFromArray(IntegerGrid(r, c, 0))} :
             /\ heap = <<A.mElements>> \o [n \in BlockLengths |-> Block(n)]
             /\ mats = <<[A EXCEPT !.mElements = 1]>>
    /\ origin = <<[op |-> "new", operands |-> {}]>>
    /\ callerBufs = {n + 1 : n \in BlockLengths}
    /\ last = NoCall
    /\ task = NoTask

NextSubmatrix ==
    \/ \E startRow \in 0..MaxDim, startCol \in 0..MaxDim, block \in callerBufs :
          SetSubmatrix(1, startRow, startCol, block)
    \/ \E startRow \in 0..MaxDim, startCol \in 0..MaxDim, size \in 1..MaxDim :
          GetSubmatrix(1, startRow, startCol, size)

SpecSubmatrix == InitSubmatrix /\ [][NextSubmatrix]_vars

---------------------------------------------------------------------------
(* The properties *)

\* The sum over u in [u, k) of A[i,u] * B[u,j], added to sum.
RECURSIVE ProductSum(_, _, _, _, _, _)
ProductSum(A, B, i, j, u, sum) ==
    IF u >= A.columns THEN sum
    ELSE Only({ProductSum(A, B, i, j, u1, next) :
                  u1 \in {u + 1},
                  next \in {FAdd(sum, FMul(Read(A.mElements, i * A.columns + u),
                                           Read(B.mElements, u * B.columns + j)))}})

\* C1: A.naiveMultiply(B) raises error 807 exactly when A.columns differs from B.rows,
\* and otherwise returns the A.rows x B.columns matrix whose entry (i,j) is the sum
\* over u of A[i,u] * B[u,j], whatever the inner dimension.
C1_NaiveMultiplyIsTheProduct ==
    last.op = "naiveMultiply" =>
        \E A \in {View(last.this)}, B \in {View(last.args[1])} :
            IF A.columns # B.rows THEN last.err = 807
            ELSE /\ last.err = 0
                 /\ mats[last.ret].rows = A.rows
                 /\ mats[last.ret].columns = B.columns
                 /\ \A i \in 0..(A.rows - 1), j \in 0..(B.columns - 1) :
                       Read(Elements(last.ret), i * B.columns + j)
                           = ProductSum(A, B, i, j, 0, Zero)

\* C2: for square A and B of the same power-of-two dimension, A.strassenMultiply(B)
\* returns, and A.naiveMultiply(B) returns a matrix of the same shape and elements.
C2_StrassenAgreesWithNaive ==
    last.op = "strassenMultiply" =>
        \E A \in {View(last.this)}, B \in {View(last.args[1])} :
            (A.isSquare /\ B.isSquare /\ A.rows = B.rows /\ isPowerOfTwo(A.rows)) =>
                /\ last.err = 0
                /\ \E n \in {naiveMultiply(A, B)} :
                      /\ ~IsThrown(n)
                      /\ n.shape = mats[last.ret].shape
                      /\ n.mElements = Elements(last.ret)

\* After an accessor call: the error is raised exactly for the indices out of range,
\* and getRow and getColumn return the stored entries.
C3_Outcome ==
    last.op \in {"getElement", "setElement", "getRow", "getColumn"} =>
        \E A \in {View(last.this)} :
            /\ last.err \in {0, 800}
            /\ last.op \in {"getElement", "setElement"} =>
                  (last.err = 800 <=> ~(/\ last.args[1] \in 0..(A.rows - 1)
                                         /\ last.args[2] \in 0..(A.columns - 1)))
            /\ last.op = "getRow" =>
                  /\ last.err = 800 <=> last.args[1] \notin 0..(A.rows - 1)
                  /\ last.err = 0 =>
                        last.val = [k \in 1..A.columns |->
                                       Read(A.mElements, last.args[1] * A.columns + (k - 1))]
            /\ last.op = "getColumn" =>
                  /\ last.err = 800 <=> last.args[1] \notin 0..(A.columns - 1)
                  /\ last.err = 0 =>
                        last.val = [k \in 1..A.rows |->
                                       Read(A.mElements, (k - 1) * A.columns + last.args[1])]

\* A setElement that raises leaves the storage as it was.
C3_RaisingWriteKeepsStorage == (last'.op = "setElement" /\ last'.err # 0) => heap' = heap

\* C3: getElement and setElement raise error 800 whenever the row or the column is out
\* of range, getRow whenever the row is, getColumn whenever the column is; within the
\* ranges none raises and getRow and getColumn return the stored entries; a setElement
\* that raises leaves the storage unchanged.
C3_BoundsChecked == [](C3_Outcome) /\ [][C3_RaisingWriteKeepsStorage]_vars

\* Some entry of the nested array is not a finite number.
HasNonFinite(entries) ==
    \E i \in 1..Len(entries) : \E j \in 1..Len(entries[i]) : ~IsFinite(entries[i][j])

\* C4: every stored element of every Matrix is a finite number, and a construction
\* whose entries hold a value that is not finite is rejected with an error.
C4_AllElementsFinite ==
    /\ \A m \in Objects : \A k \in 1..Len(Elements(m)) : IsFinite(Elements(m)[k])
    /\ (last.op = "new" /\ HasNonFinite(last.args[1])) => last.err # 0
    /\ (last.op = "newFlat" /\ \E k \in 1..Len(heap[last.args[1]]) :
                                  ~IsFinite(heap[last.args[1]][k])) => last.err # 0

\* C5: every Matrix has positive rows and columns, size = rows * columns, and a
\* buffer of that length.
C5_BufferLengthIsSize ==
    \A m \in Objects :
        /\ mats[m].rows >= 1
        /\ mats[m].columns >= 1
        /\ mats[m].size = mats[m].rows * mats[m].columns
        /\ Len(Elements(m)) = mats[m].rows * mats[m].columns

\* The label '(rows,columns)'.
ShapeLabel(rows, columns) == <<"(">> \o Digits(rows) \o <<",">> \o Digits(columns) \o <<")">>

\* C6: each Matrix has exactly one of isSquare, isTall and isWide true, the one that
\* matches its rows and columns, and its shape is the label of its rows and columns.
C6_FlagsAndShapeMatchDimensions ==
    \A m \in Objects :
        /\ Cardinality({f \in {"isSquare", "isTall", "isWide"} : mats[m][f]}) = 1
        /\ mats[m].isSquare <=> mats[m].rows = mats[m].columns
        /\ mats[m].isTall <=> mats[m].rows > mats[m].columns
        /\ mats[m].isWide <=> mats[m].columns > mats[m].rows
        /\ mats[m].shape = ShapeLabel(mats[m].rows, mats[m].columns)

\* A matrix that is not square has been transposed, and its transpose multiplied.
C6_Witness ==
    \E m \in Objects, p \in Objects :
        /\ origin[m].op = "transpose"
        /\ mats[m].rows # mats[m].columns
        /\ origin[p].op = "naiveMultiply"
        /\ m \in origin[p].operands

\* The last call wrote into Matrix m: a setElement or a setSubmatrix that returned.
WroteInto(m) == last.op \in {"setElement", "setSubmatrix"} /\ last.err = 0 /\ last.this = m

\* The calls that return a Matrix of the result kind.
ResultOps ==
    {"add", "subtract", "scale", "naiveMultiply", "strassenMultiply", "transpose",
     "getSubmatrix"}

\* Object r was returned by one of these calls on operand o.
ResultOf(r, o) == origin[r].op \in ResultOps /\ o \in origin[r].operands

\* A write by the caller changes the elements of no Matrix, and a write into a Matrix
\* changes the elements of no other.
C7_WritesStayInside ==
    /\ last'.op = "callerWrite" => \A m \in Objects : Elements(m)' = Elements(m)
    /\ \A m \in Objects : WroteInto(m)' =>
          \A n \in Objects \ {m} : Elements(n)' = Elements(n)

\* C7: no two Matrix objects share storage, and neither a write by the caller into a
\* buffer a Matrix was constructed from, nor a setElement or setSubmatrix on another
\* Matrix, changes the elements of a Matrix.
C7_StorageExclusivelyOwned ==
    /\ [](\A m \in Objects, n \in Objects : m # n => mats[m].mElements # mats[n].mElements)
    /\ [][C7_WritesStayInside]_vars

\* C8: a setElement or setSubmatrix on the Matrix returned by add, subtract, scale,
\* naiveMultiply, strassenMultiply, transpose or getSubmatrix leaves the elements of
\* every operand unchanged, and one on an operand leaves the elements of the result
\* unchanged.
C8_ResultsHaveOwnStorage ==
    [][\A m \in Objects, o \in Objects :
          (WroteInto(m)' /\ m # o /\ (ResultOf(m, o) \/ ResultOf(o, m)))
              => Elements(o)' = Elements(o)]_vars

\* A setElement has just changed the Matrix returned by an add.
C8_Witness ==
    /\ last.op = "setElement"
    /\ last.err = 0
    /\ origin[last.this].op = "add"
    /\ Elements(last.this)[1] = Num(7)
    /\ \E o \in origin[last.this].operands : Elements(o)[1] # Num(7)

\* The calls that are not writes in place.
PureOps ==
    {"add", "subtract", "scale", "naiveMultiply", "strassenMultiply", "transpose",
     "gramSmith", "QRDecomposition"}

\* C9: add, subtract, scale, naiveMultiply, strassenMultiply, transpose, gramSmith and
\* QRDecomposition leave the elements, rows, columns, shape and flags of every Matrix
\* there was before the call unchanged, whether they return or raise.
C9_OperandsUnchanged ==
    [][last'.op \in PureOps => \A m \in Objects : View(m)' = View(m)]_vars

\* C10: the Matrix addasync returns is constructed when every chunk task has
\* resolved, and it is the Matrix add returns; addasync raises when add raises.
C10_AddAsyncIsAdd ==
    last.op = "addasync" =>
        \E r \in {add(View(last.this), View(last.args[1]))} :
            IF last.err # 0 THEN IsThrown(r) /\ r.err = last.err
            ELSE /\ ~IsThrown(r)
                 /\ View(last.ret) = r
                 /\ last.val = <<0..(last.args[2] - 1)>>

\* An addasync of two chunk tasks that are not empty has returned a sum that differs
\* from its first operand.
C10_Witness ==
    /\ last.op = "addasync"
    /\ last.err = 0
    /\ last.args[2] = 2
    /\ mats[last.ret].size >= 2
    /\ \A k \in 1..mats[last.ret].size : Elements(last.ret)[k] # Elements(last.this)[k]

\* The entry (i, j) of A, rows and columns counted from 0.
Entry(A, i, j) == Read(A.mElements, i * A.columns + j)

\* A is square and every entry below the main diagonal is zero.
IsSquareUpper(A) ==
    /\ A.rows = A.columns
    /\ \A i \in 0..(A.rows - 1), j \in 0..(A.columns - 1) : i > j => Entry(A, i, j) = Zero

\* A is square and every entry above the main diagonal is zero.
IsSquareLower(A) ==
    /\ A.rows = A.columns
    /\ \A i \in 0..(A.rows - 1), j \in 0..(A.columns - 1) : i < j => Entry(A, i, j) = Zero

ZeroOnDiagonal(A) == \E i \in 0..(A.rows - 1) : Entry(A, i, i) = Zero

\* The sum over the columns j, j + 1, ... of A[i,j] * x[j], added to sum.
RECURSIVE RowSum(_, _, _, _, _)
RowSum(A, x, i, j, sum) ==
    IF j >= A.columns THEN sum
    ELSE Only({RowSum(A, x, i, j1, next) :
                  j1 \in {j + 1}, next \in {FAdd(sum, FMul(Entry(A, i, j), At(x, j + 1)))}})

\* x has as many entries as A has rows, and A * x = b.
Solves(A, x, b) ==
    /\ Len(x) = A.rows
    /\ \A i \in 0..(A.rows - 1) : RowSum(A, x, i, 0, Zero) = At(b, i + 1)

\* The last call is a substitution on a square matrix of its triangular shape.
OnItsTriangularShape ==
    \/ last.op = "backSubstitution" /\ IsSquareUpper(View(last.this))
    \/ last.op = "forwardSubstitution" /\ IsSquareLower(View(last.this))

\* The argument b of the last call is an array of as many entries as `this` has rows.
RightHandSideFits ==
    last.args[1].isArray /\ Len(last.args[1].items) = mats[last.this].rows

NotTriangular == {815, 816}

\* C12: a substitution raises a NotTriangular error when `this` is not of its
\* triangular shape, raises error 606 when b is not an array of as many entries as
\* `this` has rows, and returns only when neither is the case.
C12_SubstitutionRequirements ==
    last.op \in {"backSubstitution", "forwardSubstitution"} =>
        /\ ~OnItsTriangularShape => last.err \in NotTriangular
        /\ (OnItsTriangularShape /\ ~RightHandSideFits) => last.err = 606
        /\ last.err = 0 => (OnItsTriangularShape /\ RightHandSideFits)

\* The k-th unit vector of dimension n, k counted from 0.
UnitVector(n, k) == Stored([j \in 1..n |-> IF j = k + 1 THEN One ELSE Zero])

\* Column k of the matrix X, as an array.
ColumnOf(X, k) == Stored([i \in 1..X.rows |-> Entry(X, i - 1, k)])

C16_TriangularPredicates ==
    last.op \in {"isUpperTriangular", "isLowerTriangular"} =>
        \E A \in {View(last.this)} :
            /\ last.err = 0
            /\ last.val[1] = (IF last.op = "isUpperTriangular" THEN IsSquareUpper(A)
                              ELSE IsSquareLower(A))
            /\ \A p \in last.val[2] : p[1] \in 0..(A.rows - 1) /\ p[2] \in 0..(A.columns - 1)

\* C14: reshape(flat, newRows, newCols) raises error 806 when the length of flat
\* differs from newRows * newCols, and whenever it returns, the result has newRows
\* rows, newCols columns and element (r, c) equal to flat[r * newCols + c].
C14_ReshapeLayout ==
    last.op = "reshape" =>
        \E flat \in {last.args[1]}, newRows \in {last.args[2]}, newCols \in {last.args[3]} :
            /\ Len(flat) # newRows * newCols => last.err = 806
            /\ last.err = 0 =>
                  /\ mats[last.ret].rows = newRows
                  /\ mats[last.ret].columns = newCols
                  /\ \A r \in 0..(newRows - 1), c \in 0..(newCols - 1) :
                        Entry(View(last.ret), r, c) = At(flat, r * newCols + c + 1)

\* A and B are square of one common dimension, a power of two.
ValidForStrassen(A, B) ==
    /\ A.rows = A.columns
    /\ B.rows = B.columns
    /\ A.rows = B.rows
    /\ \E k \in 0..Min(A.rows, 30) : 2 ^ k = A.rows

\* C15: strassenMultiply raises its structural error exactly when the operands are
\* not both square of one common power-of-two dimension n, and for such operands it
\* returns an n x n matrix without raising (no recursive call raises either).
C15_StrassenPrecondition ==
    last.op = "strassenMultiply" =>
        \E A \in {View(last.this)}, B \in {View(last.args[1])} :
            IF ~ValidForStrassen(A, B) THEN last.err = 1
            ELSE /\ last.err = 0
                 /\ mats[last.ret].rows = A.rows
                 /\ mats[last.ret].columns = A.rows

\* Column c of A is zero.
ZeroColumn(A, c) == \A i \in 0..(A.rows - 1) : Entry(A, i, c) = Zero

\* Columns c and d of A are multiples of one vector.
Proportional(A, c, d) ==
    \A i \in 0..(A.rows - 1), k \in 0..(A.rows - 1) :
       FMul(Entry(A, i, c), Entry(A, k, d)) = FMul(Entry(A, k, c), Entry(A, i, d))

\* The columns of A are not a basis: there are more of them than rows, or one is
\* zero, or one is a multiple of another.
ColumnsDependent(A) ==
    \/ A.columns > A.rows
    \/ \E c \in 0..(A.columns - 1) : ZeroColumn(A, c)
    \/ \E c \in 0..(A.columns - 1), d \in 0..(A.columns - 1) : c < d /\ Proportional(A, c, d)

\* C17: gramSmith raises error 704, and no other error, whenever the columns of `this`
\* are not a basis (a zero column at any position, a column depending on earlier ones,
\* more columns than rows), and a matrix it returns has the shape of `this`.
C17_DependentColumnsRaise ==
    last.op = "gramSmith" =>
        \E A \in {View(last.this)} :
            /\ ColumnsDependent(A) => last.err = 704
            /\ last.err = 0 =>
                  /\ mats[last.ret].rows = A.rows
                  /\ mats[last.ret].columns = A.columns
                  /\ mats[last.ret].shape = A.shape

\* T is the transpose of A: A.columns x A.rows, with element (j, i) that of A at (i, j).
IsTransposeOf(T, A) ==
    /\ T.rows = A.columns
    /\ T.columns = A.rows
    /\ \A i \in 0..(A.rows - 1), j \in 0..(A.columns - 1) : Entry(T, j, i) = Entry(A, i, j)

\* X and A have the same rows, columns, shape label, flags and elements.
SameMatrix(X, A) ==
    /\ X.rows = A.rows
    /\ X.columns = A.columns
    /\ X.shape = A.shape
    /\ X.isSquare = A.isSquare /\ X.isTall = A.isTall /\ X.isWide = A.isWide
    /\ \A i \in 0..(A.rows - 1), j \in 0..(A.columns - 1) : Entry(X, i, j) = Entry(A, i, j)

\* C18: A.transpose() is the A.columns x A.rows matrix with element (j, i) equal to
\* element (i, j) of A, and the transpose of that matrix is A again: the same rows,
\* columns, shape label, flags and elements.
C18_TransposeTwiceIsIdentity ==
    last.op = "transpose" =>
        /\ last.err = 0
        /\ IsTransposeOf(View(last.ret), View(last.this))
        /\ SameMatrix(transpose(View(last.ret)), View(last.this))

\* A matrix that is not square and not symmetric in its values has been transposed,
\* and its transpose transposed.
C18_Witness ==
    /\ last.op = "transpose"
    /\ last.err = 0
    /\ origin[last.this].op = "transpose"
    /\ mats[last.ret].rows # mats[last.ret].columns
    /\ Elements(last.ret)[1] # Elements(last.ret)[2]

\* The integer square root of n.
IntegerSqrt(n) == CHOOSE s \in 0..n : s * s <= n /\ (s + 1) * (s + 1) > n

\* The effect the claim gives to setSubmatrix(startRow, startCol, block) on A, with A2
\* the Matrix afterwards and s the integer square root of the length of block: the
\* block's values are in place, every other element is as before, and getSubmatrix
\* returns the block's values.
SubmatrixSet(A, A2, startRow, startCol, block, s) ==
    /\ \A i \in 0..(A.rows - 1), j \in 0..(A.columns - 1) :
          Entry(A2, i, j) =
              IF i \in startRow..(startRow + s - 1) /\ j \in startCol..(startCol + s - 1)
              THEN Read(block, (i - startRow) * s + (j - startCol))
              ELSE Entry(A, i, j)
    /\ [A2 EXCEPT !.mElements = <<>>] = [A EXCEPT !.mElements = <<>>]
    /\ \E G \in {getSubmatrix(A2, startRow, startCol, s)} :
          /\ ~IsThrown(G)
          /\ G.mElements = SubSeq(block, 1, s * s)

\* The step is a call of setSubmatrix on Matrix m with a block that fits at its offset.
SetsFittingBlock(m) ==
    /\ last'.op = "setSubmatrix"
    /\ last'.this = m
    /\ \E s \in {IntegerSqrt(Len(heap[last'.args[3]]))} :
          /\ last'.args[1] + s <= mats[m].rows
          /\ last'.args[2] + s <= mats[m].columns

\* C19: for a block of length L >= 1, s the integer square root of L, and an offset
\* with startRow + s <= rows and startCol + s <= columns, setSubmatrix sets element
\* (startRow + i, startCol + j) to block[i * s + j] for i, j in [0, s), leaves every
\* other element and the rows, columns, shape and flags unchanged, and getSubmatrix of
\* size s at the offset then returns the s * s values of the block.
C19_SetSubmatrixFrame ==
    [][\A m \in Objects :
          SetsFittingBlock(m) =>
              SubmatrixSet(View(m), View(m)', last'.args[1], last'.args[2],
                           heap[last'.args[3]], IntegerSqrt(Len(heap[last'.args[3]])))]_vars

\* C20: for square A and B of integers, of one common power-of-two dimension n >= 4,
\* A.strassenMultiply(B) returns the n x n matrix whose entry (i, j) is the sum over u
\* of A[i,u] * B[u,j].
C20_StrassenIsTheProduct ==
    last.op = "strassenMultiply" =>
        \E A \in {View(last.this)}, B \in {View(last.args[1])} :
            (ValidForStrassen(A, B) /\ A.rows >= 4) =>
                /\ last.err = 0
                /\ mats[last.ret].rows = A.rows
                /\ mats[last.ret].columns = A.rows
                /\ \A i \in 0..(A.rows - 1), j \in 0..(A.rows - 1) :
                      Read(Elements(last.ret), i * A.rows + j) = ProductSum(A, B, i, j, 0, Zero)

\* strassenMultiply has returned the product of two different 32 x 32 matrices, and
\* the product is no multiple of the operands' corner entries.
C20_Witness ==
    /\ last.op = "strassenMultiply"
    /\ last.err = 0
    /\ mats[last.ret].rows = 32
    /\ Elements(last.this) # Elements(last.args[1])
    /\ \E k \in 1..Len(Elements(last.ret)) : Elements(last.ret)[k] \notin {Zero, One, Num(-1)}

\* The least c with c * P >= size.
Ceiling(size, P) == CHOOSE c \in 0..size : c * P >= size /\ (c - 1) * P < size

\* Chunk i of [0, size) cut in P chunks: [i * c, min((i + 1) * c, size)), c the ceiling
\* of size / P.
Chunk(size, P, i) ==
    {j \in 0..(size - 1) : i * Ceiling(size, P) <= j /\ j < (i + 1) * Ceiling(size, P)}

\* The number of assignments of index j by the tasks of t.
TimesWritten(t, j) ==
    Cardinality({w \in {<<i, k>> : i \in DOMAIN t.written, k \in 1..t.size} :
                    w[2] <= Len(t.written[w[1]]) /\ t.written[w[1]][w[2]] = j})

\* C21: the chunks of addasync are contiguous, pairwise disjoint and cover [0, size);
\* a task that has run has assigned each index of its own chunk once, in order, and
\* no other index; once every task has run, every index of [0, size) has been
\* assigned exactly once. This also when there are more chunks than indices.
C21_ChunksPartitionTheRange ==
    task.pc = "chunks" =>
        \E size \in {task.size}, P \in {task.numProcessors} :
            /\ \A j \in 0..(size - 1) :
                  Cardinality({i \in 0..(P - 1) : j \in Chunk(size, P, i)}) = 1
            /\ \A i \in 0..(P - 1), k \in 0..(P - 1) :
                  i < k => \A x \in Chunk(size, P, i), y \in Chunk(size, P, k) : x < y
            /\ \A i \in 0..(P - 1) :
                  /\ {task.written[i][k] : k \in 1..Len(task.written[i])}
                         = (IF i \in task.resolved THEN Chunk(size, P, i) ELSE {})
                  /\ \A k \in 1..(Len(task.written[i]) - 1) :
                        task.written[i][k + 1] = task.written[i][k] + 1
            /\ \A j \in 0..(size - 1) : TimesWritten(task, j) <= 1
            /\ AllResolved(task) => \A j \in 0..(size - 1) : TimesWritten(task, j) = 1

\* Every task of an addasync with more chunks than some chunk has indices has run:
\* three tasks on four indices, the last of them with an empty chunk.
C21_Witness ==
    /\ task.pc = "chunks"
    /\ task.numProcessors = 3
    /\ task.size = 4
    /\ task.resolved = {0, 1, 2}
    /\ task.written = [i \in 0..2 |-> <<<<0, 1>>, <<2, 3>>, <<>>>>[i + 1]]

====
